---------------------------- MODULE Spec2Model ----------------------------
(***************************************************************************)
(* DocuMitra (src/streamlit_app.py): MockDocumentProcessor and the         *)
(* "Process Document" run of main().                                       *)
(*                                                                         *)
(* Representation.                                                         *)
(*   - A str is a sequence of Unicode code points, a bytes object a        *)
(*     sequence of integers 0..255; `in` is substring search, lower() and  *)
(*     decode('utf-8') are computed on those sequences.                    *)
(*   - A department label is the tuple of its space-separated words        *)
(*     (<<"Safety", "Circulars">> is 'Safety Circulars'); labels are only  *)
(*     compared, used as dict keys and passed to replace(' ', '_').        *)
(*   - A float score is the integer number of hundredths (0.85 is 85).     *)
(*   - A dict whose iteration order the code depends on (dept_scores) is   *)
(*     the sequence of its items [k, v] in insertion order; the summaries  *)
(*     dict, only ever read with .get, is a function.                      *)
(*   - Every Streamlit session runs main() in its own thread with its own  *)
(*     locals; the processor returned by get_processor() is shared.        *)
(***************************************************************************)
EXTENDS Integers, Sequences, FiniteSets, TLC

\* ------------------------------------------------------------------ bounds
\* Streamlit sessions running main() against the one cached processor.
NumSessions == 2
\* Most words in the content of an uploaded file.
MaxWords == 3
\* Most catalog departments a hand-made summaries mapping leaves without a
\* usable entry (SpecAssemble).
MaxMissing == 2

Sessions == 1..NumSessions

None == "None"

\* ----------------------------------------------------------------- strings
\* The keywords of classify_department and classify_priority, as code points.
kw_engineering == <<101, 110, 103, 105, 110, 101, 101, 114, 105, 110, 103>>
kw_legal       == <<108, 101, 103, 97, 108>>
kw_finance     == <<102, 105, 110, 97, 110, 99, 101>>
kw_hr          == <<104, 114>>
kw_safety      == <<115, 97, 102, 101, 116, 121>>
kw_board       == <<98, 111, 97, 114, 100>>
kw_maintenance == <<109, 97, 105, 110, 116, 101, 110, 97, 110, 99, 101>>
kw_incident    == <<105, 110, 99, 105, 100, 101, 110, 116>>
kw_vendor      == <<118, 101, 110, 100, 111, 114>>
kw_purchase    == <<112, 117, 114, 99, 104, 97, 115, 101>>
kw_regulatory  == <<114, 101, 103, 117, 108, 97, 116, 111, 114, 121>>
kw_urgent      == <<117, 114, 103, 101, 110, 116>>
kw_important   == <<105, 109, 112, 111, 114, 116, 97, 110, 116>>
\* '.txt'
suffix_txt     == <<46, 116, 120, 116>>
\* 'Sample document content from '
sample_head == <<83, 97, 109, 112, 108, 101, 32, 100, 111, 99, 117, 109, 101,
                 110, 116, 32, 99, 111, 110, 116, 101, 110, 116, 32, 102, 114,
                 111, 109, 32>>
\* '. This document contains information about various departments including
\* engineering, legal, finance, HR, and safety protocols.'
sample_tail == <<46, 32, 84, 104, 105, 115, 32, 100, 111, 99, 117, 109, 101,
                 110, 116, 32, 99, 111, 110, 116, 97, 105, 110, 115, 32, 105,
                 110, 102, 111, 114, 109, 97, 116, 105, 111, 110, 32, 97, 98,
                 111, 117, 116, 32, 118, 97, 114, 105, 111, 117, 115, 32, 100,
                 101, 112, 97, 114, 116, 109, 101, 110, 116, 115, 32, 105, 110,
                 99, 108, 117, 100, 105, 110, 103, 32, 101, 110, 103, 105, 110,
                 101, 101, 114, 105, 110, 103, 44, 32, 108, 101, 103, 97, 108,
                 44, 32, 102, 105, 110, 97, 110, 99, 101, 44, 32, 72, 82, 44,
                 32, 97, 110, 100, 32, 115, 97, 102, 101, 116, 121, 32, 112,
                 114, 111, 116, 111, 99, 111, 108, 115, 46>>

\* needle in hay
Contains(hay, needle) ==
    \E i \in 0..(Len(hay) - Len(needle)) :
        \A j \in 1..Len(needle) : hay[i + j] = needle[j]

\* s.endswith(suffix)
endswith(s, suffix) ==
    /\ Len(s) >= Len(suffix)
    /\ \A j \in 1..Len(suffix) : s[Len(s) - Len(suffix) + j] = suffix[j]

\* str.lower() of one code point: A-Z and the Latin-1 capitals (all of
\* U+00C0..U+00DE but the multiplication sign) move up by 32.
lower_cp(c) ==
    IF (65 <= c /\ c <= 90) \/ (192 <= c /\ c <= 222 /\ c # 215)
    THEN c + 32 ELSE c

lower(s) == [i \in 1..Len(s) |-> lower_cp(s[i])]

\* bytes.decode('utf-8'), strict: the well-formed sequences of one to four
\* bytes (no overlong forms, no surrogates, nothing above U+10FFFF) give a
\* code point, anything else raises UnicodeDecodeError.
utf8_width(b0) ==
    IF b0 < 128 THEN 1
    ELSE IF b0 \in 194..223 THEN 2
    ELSE IF b0 \in 224..239 THEN 3
    ELSE IF b0 \in 240..244 THEN 4
    ELSE 0

utf8_second(b0) ==
    IF b0 = 224 THEN 160..191
    ELSE IF b0 = 237 THEN 128..159
    ELSE IF b0 = 240 THEN 144..191
    ELSE IF b0 = 244 THEN 128..143
    ELSE 128..191

utf8_well_formed(b, i, n) ==
    /\ n > 0
    /\ i + n - 1 <= Len(b)
    /\ n >= 2 => b[i + 1] \in utf8_second(b[i])
    /\ \A j \in 2..(n - 1) : b[i + j] \in 128..191

utf8_code_point(b, i, n) ==
    IF n = 1 THEN b[i]
    ELSE IF n = 2 THEN (b[i] - 192) * 64 + (b[i + 1] - 128)
    ELSE IF n = 3 THEN (b[i] - 224) * 4096 + (b[i + 1] - 128) * 64
                       + (b[i + 2] - 128)
    ELSE (b[i] - 240) * 262144 + (b[i + 1] - 128) * 4096
         + (b[i + 2] - 128) * 64 + (b[i + 3] - 128)

RECURSIVE decode_from(_, _, _)
decode_from(b, i, acc) ==
    IF i > Len(b) THEN [ok |-> TRUE, text |-> acc]
    ELSE LET n == utf8_width(b[i])
         IN  IF utf8_well_formed(b, i, n)
             THEN decode_from(b, i + n, Append(acc, utf8_code_point(b, i, n)))
             ELSE [ok |-> FALSE, exc |-> "UnicodeDecodeError"]

decode_utf8(b) == decode_from(b, 1, <<>>)

\* --------------------------------------------------- MockDocumentProcessor
\* __init__: the two lists of the processor.
MockDocumentProcessor ==
    [departments |->
        << <<"Engineering", "Drawings">>, <<"Legal", "Opinions">>,
           <<"Finance">>, <<"HR", "Policies">>, <<"Safety", "Circulars">>,
           <<"Board", "Meeting", "Minutes">>,
           <<"Maintenance", "Job", "Cards">>, <<"Incident", "Reports">>,
           <<"Vendor", "Invoices">>,
           <<"Purchase", "Order", "Correspondence">>,
           <<"Regulatory", "Directives">> >>,
     priorities |-> <<"high", "medium", "low">>]

\* Mutant: the suffix test made on the lower-cased name.
extract_text_any_case(file_content, filename) ==
    IF endswith(lower(filename), suffix_txt)
    THEN LET d == decode_utf8(file_content)
         IN  IF d.ok THEN [ok |-> TRUE, text |-> d.text, language |-> "en"]
             ELSE [ok |-> FALSE, exc |-> d.exc, raised_in |-> "extract_text"]
    ELSE [ok |-> TRUE,
          text |-> sample_head \o filename \o sample_tail,
          language |-> "en"]

\* Mutant: undecodable bytes swallowed, the text left empty.
extract_text_swallow(file_content, filename) ==
    IF endswith(filename, suffix_txt)
    THEN LET d == decode_utf8(file_content)
         IN  [ok |-> TRUE, text |-> IF d.ok THEN d.text ELSE <<>>,
              language |-> "en"]
    ELSE [ok |-> TRUE,
          text |-> sample_head \o filename \o sample_tail,
          language |-> "en"]

\* extract_text: a '.txt' name decodes the bytes (and raises when they are
\* not UTF-8); any other name gives the sample sentence around the name.
extract_text(file_content, filename) ==
    IF endswith(filename, suffix_txt)
    THEN LET d == decode_utf8(file_content)
         IN  IF d.ok THEN [ok |-> TRUE, text |-> d.text, language |-> "en"]
             ELSE [ok |-> FALSE, exc |-> d.exc, raised_in |-> "extract_text"]
    ELSE [ok |-> TRUE,
          text |-> sample_head \o filename \o sample_tail,
          language |-> "en"]

\* Mutant: the key of the fourth item misspelt.
dept_scores_typo(text) ==
    LET text_lower == lower(text)
        item(label, kw, hit, miss) ==
            [k |-> label, v |-> IF Contains(text_lower, kw) THEN hit ELSE miss]
    IN  << item(<<"Engineering", "Drawings">>, kw_engineering, 85, 30),
           item(<<"Legal", "Opinions">>, kw_legal, 80, 25),
           item(<<"Finance">>, kw_finance, 75, 35),
           item(<<"HR", "Policy">>, kw_hr, 70, 28),
           item(<<"Safety", "Circulars">>, kw_safety, 90, 40),
           item(<<"Board", "Meeting", "Minutes">>, kw_board, 85, 32),
           item(<<"Maintenance", "Job", "Cards">>, kw_maintenance, 65, 22),
           item(<<"Incident", "Reports">>, kw_incident, 75, 26),
           item(<<"Vendor", "Invoices">>, kw_vendor, 70, 24),
           item(<<"Purchase", "Order", "Correspondence">>, kw_purchase, 68, 20),
           item(<<"Regulatory", "Directives">>, kw_regulatory, 72, 18) >>

\* Mutant: one floor value for every department that has no keyword hit.
dept_scores_floor(text) ==
    LET text_lower == lower(text)
        item(label, kw, hit, miss) ==
            [k |-> label, v |-> IF Contains(text_lower, kw) THEN hit ELSE miss]
    IN  << item(<<"Engineering", "Drawings">>, kw_engineering, 85, 18),
           item(<<"Legal", "Opinions">>, kw_legal, 80, 18),
           item(<<"Finance">>, kw_finance, 75, 18),
           item(<<"HR", "Policies">>, kw_hr, 70, 18),
           item(<<"Safety", "Circulars">>, kw_safety, 90, 18),
           item(<<"Board", "Meeting", "Minutes">>, kw_board, 85, 18),
           item(<<"Maintenance", "Job", "Cards">>, kw_maintenance, 65, 18),
           item(<<"Incident", "Reports">>, kw_incident, 75, 18),
           item(<<"Vendor", "Invoices">>, kw_vendor, 70, 18),
           item(<<"Purchase", "Order", "Correspondence">>, kw_purchase, 68, 18),
           item(<<"Regulatory", "Directives">>, kw_regulatory, 72, 18) >>

\* The dict literal of classify_department, items in insertion order.
dept_scores(text) ==
    LET text_lower == lower(text)
        item(label, kw, hit, miss) ==
            [k |-> label, v |-> IF Contains(text_lower, kw) THEN hit ELSE miss]
    IN  << item(<<"Engineering", "Drawings">>, kw_engineering, 85, 30),
           item(<<"Legal", "Opinions">>, kw_legal, 80, 25),
           item(<<"Finance">>, kw_finance, 75, 35),
           item(<<"HR", "Policies">>, kw_hr, 70, 28),
           item(<<"Safety", "Circulars">>, kw_safety, 90, 40),
           item(<<"Board", "Meeting", "Minutes">>, kw_board, 85, 32),
           item(<<"Maintenance", "Job", "Cards">>, kw_maintenance, 65, 22),
           item(<<"Incident", "Reports">>, kw_incident, 75, 26),
           item(<<"Vendor", "Invoices">>, kw_vendor, 70, 24),
           item(<<"Purchase", "Order", "Correspondence">>, kw_purchase, 68, 20),
           item(<<"Regulatory", "Directives">>, kw_regulatory, 72, 18) >>

\* d[key] of a dict kept as its item sequence.
dict_get(d, key) == d[CHOOSE i \in 1..Len(d) : d[i].k = key].v

dict_keys(d) == {d[i].k : i \in 1..Len(d)}

\* max(d, key=d.get): the keys in iteration order, a later key replacing the
\* best one only when its value is strictly greater.
RECURSIVE max_from(_, _, _)
max_from(d, i, best) ==
    IF i > Len(d) THEN best
    ELSE max_from(d, i + 1,
                  IF dict_get(d, d[i].k) > dict_get(d, d[best].k)
                  THEN i ELSE best)

\* Mutant: a later key replaces the best one on an equal value too.
RECURSIVE max_from_last(_, _, _)
max_from_last(d, i, best) ==
    IF i > Len(d) THEN best
    ELSE max_from_last(d, i + 1,
                       IF dict_get(d, d[i].k) >= dict_get(d, d[best].k)
                       THEN i ELSE best)

max_key_last(d) == d[max_from_last(d, 2, 1)].k

max_key(d) == d[max_from(d, 2, 1)].k

\* classify_department: (primary_dept, dept_scores[primary_dept], dept_scores)
classify_department(text) ==
    LET scores == dept_scores(text)
        primary_dept == max_key(scores)
    IN  <<primary_dept, dict_get(scores, primary_dept), scores>>

\* Mutant: 'important' tested before 'urgent'.
classify_priority_important_first(text) ==
    LET text_lower == lower(text)
    IN  IF Contains(text_lower, kw_important) THEN <<"Medium", 70>>
        ELSE IF Contains(text_lower, kw_urgent) THEN <<"High", 90>>
        ELSE <<"Low", 60>>

\* classify_priority
classify_priority(text) ==
    LET text_lower == lower(text)
    IN  IF Contains(text_lower, kw_urgent) THEN <<"High", 90>>
        ELSE IF Contains(text_lower, kw_important) THEN <<"Medium", 70>>
        ELSE <<"Low", 60>>

\* {'detailed': s}
detailed(s) == "detailed" :> s

\* generate_summary: the same mapping for every text.
generate_summary(text) ==
    (<<"Engineering", "Drawings">> :>
        detailed("Technical specifications and engineering requirements document"))
    @@ (<<"Legal", "Opinions">> :>
        detailed("Legal analysis and compliance documentation"))
    @@ (<<"Finance">> :>
        detailed("Financial analysis and budget planning document"))
    @@ (<<"HR", "Policies">> :>
        detailed("Human resources policies and procedures"))
    @@ (<<"Safety", "Circulars">> :>
        detailed("Safety protocols and emergency procedures"))
    @@ (<<"Board", "Meeting", "Minutes">> :>
        detailed("Board meeting discussions and resolutions"))
    @@ (<<"Maintenance", "Job", "Cards">> :>
        detailed("Equipment maintenance and service records"))
    @@ (<<"Incident", "Reports">> :>
        detailed("Incident documentation and investigation reports"))
    @@ (<<"Vendor", "Invoices">> :>
        detailed("Vendor payment and invoice processing"))
    @@ (<<"Purchase", "Order", "Correspondence">> :>
        detailed("Purchase order and procurement communications"))
    @@ (<<"Regulatory", "Directives">> :>
        detailed("Regulatory compliance and directive documentation"))

\* ----------------------------------------------------- main: the table
\* sorted(items, key=lambda x: x[1], reverse=True): a stable sort, so items
\* of equal score keep the order they have in items.
RECURSIVE insert_desc(_, _)
insert_desc(s, x) ==
    IF s = <<>> THEN <<x>>
    ELSE IF Head(s).v >= x.v THEN <<Head(s)>> \o insert_desc(Tail(s), x)
    ELSE <<x>> \o s

RECURSIVE sorted_from(_, _, _)
sorted_from(items, i, acc) ==
    IF i > Len(items) THEN acc
    ELSE sorted_from(items, i + 1, insert_desc(acc, items[i]))

\* Mutant: sorted(items, key=lambda x: x[1])[::-1], an ascending sort turned
\* round, which also turns round the items of equal score.
RECURSIVE insert_before_equal(_, _)
insert_before_equal(s, x) ==
    IF s = <<>> THEN <<x>>
    ELSE IF Head(s).v > x.v THEN <<Head(s)>> \o insert_before_equal(Tail(s), x)
    ELSE <<x>> \o s

RECURSIVE sorted_reversed_from(_, _, _)
sorted_reversed_from(items, i, acc) ==
    IF i > Len(items) THEN acc
    ELSE sorted_reversed_from(items, i + 1, insert_before_equal(acc, items[i]))

sorted_asc_reversed(items) == sorted_reversed_from(items, 1, <<>>)

sorted_by_score_desc(items) == sorted_from(items, 1, <<>>)

\* d.get(key, default)
py_get(d, key, default) == IF key \in DOMAIN d THEN d[key] ELSE default

\* {}
empty_dict == [x \in {} |-> x]

\* summaries.get(dept_name, {}).get('detailed', 'No summary available')
dept_summary(summaries, dept_name) ==
    py_get(py_get(summaries, dept_name, empty_dict), "detailed",
           "No summary available")

\* dept_name.replace(' ', '_')
RECURSIVE replace_spaces(_)
replace_spaces(words) ==
    IF Len(words) = 1 THEN words[1]
    ELSE words[1] \o "_" \o replace_spaces(Tail(words))

\* f"{score:.2%}" of a score that is a whole number of hundredths
format_percent(score) == ToString(score) \o ".00%"

\* One pass of the loop body: the row appended for the i-th sorted item.
table_row(i, item, summaries) ==
    ("Sr. No." :> i)
    @@ ("Department Name" :> item.k)
    @@ ("Relevance Score" :> format_percent(item.v))
    @@ ("Summary" :> dept_summary(summaries, item.k))
    @@ ("Download Link" :> "#" \o replace_spaces(item.k))

\* The loop over enumerate(sorted_depts, 1).
RECURSIVE table_from(_, _, _, _)
table_from(sorted_depts, summaries, i, acc) ==
    IF i > Len(sorted_depts) THEN acc
    ELSE table_from(sorted_depts, summaries, i + 1,
                    Append(acc, table_row(i, sorted_depts[i], summaries)))

\* Mutant: enumerate(sorted_depts), which counts from 0.
build_table_from_zero(sorted_depts, summaries) ==
    [i \in 1..Len(sorted_depts) |->
        table_row(i - 1, sorted_depts[i], summaries)]

\* Mutant: a department with no entry in summaries gets no row.
RECURSIVE table_skipping(_, _, _, _)
table_skipping(sorted_depts, summaries, i, acc) ==
    IF i > Len(sorted_depts) THEN acc
    ELSE table_skipping(sorted_depts, summaries, i + 1,
            IF sorted_depts[i].k \in DOMAIN summaries
            THEN Append(acc, table_row(i, sorted_depts[i], summaries))
            ELSE acc)

build_table_skipping(sorted_depts, summaries) ==
    table_skipping(sorted_depts, summaries, 1, <<>>)

build_table(sorted_depts, summaries) ==
    table_from(sorted_depts, summaries, 1, <<>>)

\* ------------------------------------------------------------------ inputs
\* Words an uploaded file's bytes are made of: the thirteen keywords (in an
\* order that is not the catalog's), 'URGENT' in capitals, and a byte that
\* is not UTF-8 (a lone 0xFF).
Vocabulary ==
    << kw_regulatory, kw_purchase, kw_vendor, kw_incident, kw_maintenance,
       kw_board, kw_safety, kw_hr, kw_finance, kw_legal, kw_engineering,
       kw_important, kw_urgent, <<85, 82, 71, 69, 78, 84>>, <<255>> >>

\* The words of ws joined by single spaces.
RECURSIVE join_words(_)
join_words(ws) ==
    IF ws = <<>> THEN <<>>
    ELSE IF Len(ws) = 1 THEN ws[1]
    ELSE ws[1] \o <<32>> \o join_words(Tail(ws))

\* The words of Vocabulary at the places in S, in Vocabulary's order.
RECURSIVE words_at(_)
words_at(S) ==
    IF S = {} THEN <<>>
    ELSE LET m == CHOOSE x \in S : \A y \in S : x <= y
         IN  <<Vocabulary[m]>> \o words_at(S \ {m})

\* File contents: at most MaxWords different words, space-separated; the
\* empty file is among them.
Contents ==
    { join_words(words_at(S)) :
        S \in {T \in SUBSET (1..Len(Vocabulary)) : Cardinality(T) <= MaxWords} }

\* File names: 'a.txt', 'a.pdf', 'a.TXT' and 'board urgent.pdf'.
FileNames ==
    { <<97, 46, 116, 120, 116>>, <<97, 46, 112, 100, 102>>,
      <<97, 46, 84, 88, 84>>,
      <<98, 111, 97, 114, 100, 32, 117, 114, 103, 101, 110, 116, 46, 112, 100,
        102>> }

Documents == [name : FileNames, content : Contents]

\* Four documents for the runs of several sessions: 'a.txt' holding
\* 'board engineering' (two departments tied at the top), 'a.txt' holding
\* 'urgent', 'a.txt' holding the byte 0xFF, and an empty 'a.pdf'.
SampleDocuments ==
    { [name |-> <<97, 46, 116, 120, 116>>,
       content |-> kw_board \o <<32>> \o kw_engineering],
      [name |-> <<97, 46, 116, 120, 116>>, content |-> kw_urgent],
      [name |-> <<97, 46, 116, 120, 116>>, content |-> <<255>>],
      [name |-> <<97, 46, 112, 100, 102>>, content |-> <<>>] }

\* Summaries mappings a caller may hand to the table loop: full with the
\* entries of the departments in `absent` removed and those of the departments
\* in `bare` replaced by a dict that has no 'detailed' key.
without(full, absent, bare) ==
    [d \in (DOMAIN full) \ absent |->
        IF d \in bare THEN ("brief" :> "n/a") ELSE full[d]]

\* At most MaxMissing departments are absent or bare.
PartialSummaries(full) ==
    UNION { { without(full, T \ bare, bare) : bare \in SUBSET T } :
              T \in {U \in SUBSET DOMAIN full : Cardinality(U) <= MaxMissing} }

\* ------------------------------------------------------------------- state
VARIABLES
    processor,           \* the cached MockDocumentProcessor (get_processor)
    pc,                  \* per session: where its run of main() stands
    uploaded_file,       \* per session: the file in the uploader
    file_content,        \* per session, the locals of main():
    extracted_text,
    language,
    primary_department,
    primary_confidence,
    all_dept_scores,
    priority,
    summaries,
    table_data,
    shown,               \* per session: the elements the run has put on the page
    exception            \* per session: the exception that ended the run

locals == <<file_content, extracted_text, language, primary_department,
            primary_confidence, all_dept_scores, priority, summaries,
            table_data>>

vars == <<processor, pc, uploaded_file, file_content, extracted_text, language,
          primary_department, primary_confidence, all_dept_scores, priority,
          summaries, table_data, shown, exception>>

\* get_processor() builds the processor once; no session has a file yet.
Init ==
    /\ processor = MockDocumentProcessor
    /\ pc = [s \in Sessions |-> "idle"]
    /\ uploaded_file = [s \in Sessions |-> None]
    /\ file_content = [s \in Sessions |-> None]
    /\ extracted_text = [s \in Sessions |-> None]
    /\ language = [s \in Sessions |-> None]
    /\ primary_department = [s \in Sessions |-> None]
    /\ primary_confidence = [s \in Sessions |-> None]
    /\ all_dept_scores = [s \in Sessions |-> None]
    /\ priority = [s \in Sessions |-> None]
    /\ summaries = [s \in Sessions |-> None]
    /\ table_data = [s \in Sessions |-> None]
    /\ shown = [s \in Sessions |-> <<>>]
    /\ exception = [s \in Sessions |-> None]

\* ----------------------------------------------------------------- actions
\* The user puts a file in the uploader: the script runs to the button and
\* shows the file's name and size.
Upload(s, docs) ==
    /\ pc[s] = "idle"
    /\ \E doc \in docs : uploaded_file' = [uploaded_file EXCEPT ![s] = doc]
    /\ shown' = [shown EXCEPT ![s] = <<"info">>]
    /\ pc' = [pc EXCEPT ![s] = "uploaded"]
    /\ UNCHANGED <<processor, locals, exception>>

\* "Process Document" is pressed: file_content = uploaded_file.read()
ClickProcess(s) ==
    /\ pc[s] = "uploaded"
    /\ file_content' = [file_content EXCEPT ![s] = uploaded_file[s].content]
    /\ pc' = [pc EXCEPT ![s] = "read"]
    /\ UNCHANGED <<processor, uploaded_file, extracted_text, language,
                   primary_department, primary_confidence, all_dept_scores,
                   priority, summaries, table_data, shown, exception>>

\* extracted_text, language = processor.extract_text(file_content, name); an
\* exception raised there is caught nowhere in main, so the run ends with it.
ExtractText(s) ==
    /\ pc[s] = "read"
    /\ LET r == extract_text(file_content[s], uploaded_file[s].name)
       IN  IF r.ok
           THEN /\ extracted_text' = [extracted_text EXCEPT ![s] = r.text]
                /\ language' = [language EXCEPT ![s] = r.language]
                /\ pc' = [pc EXCEPT ![s] = "extracted"]
                /\ UNCHANGED <<shown, exception>>
           ELSE /\ exception' = [exception EXCEPT ![s] =
                                    [type |-> r.exc, raised_in |-> r.raised_in]]
                /\ shown' = [shown EXCEPT ![s] = Append(@, "exception")]
                /\ pc' = [pc EXCEPT ![s] = "failed"]
                /\ UNCHANGED <<extracted_text, language>>
    /\ UNCHANGED <<processor, uploaded_file, file_content, primary_department,
                   primary_confidence, all_dept_scores, priority, summaries,
                   table_data>>

\* Mutant: classify_department ranks by sorting self.departments in place.
ClassifyDepartmentInPlace(s) ==
    /\ pc[s] = "extracted"
    /\ LET r == classify_department(extracted_text[s])
           ranked == sorted_by_score_desc(r[3])
       IN  /\ primary_department' = [primary_department EXCEPT ![s] = r[1]]
           /\ primary_confidence' = [primary_confidence EXCEPT ![s] = r[2]]
           /\ all_dept_scores' = [all_dept_scores EXCEPT ![s] = r[3]]
           /\ processor' = [processor EXCEPT !.departments =
                               [i \in 1..Len(ranked) |-> ranked[i].k]]
    /\ pc' = [pc EXCEPT ![s] = "classified"]
    /\ UNCHANGED <<uploaded_file, file_content, extracted_text,
                   language, priority, summaries, table_data, shown, exception>>

\* primary_department, primary_confidence, all_dept_scores =
\*     processor.classify_department(extracted_text)
ClassifyDepartment(s) ==
    /\ pc[s] = "extracted"
    /\ LET r == classify_department(extracted_text[s])
       IN  /\ primary_department' = [primary_department EXCEPT ![s] = r[1]]
           /\ primary_confidence' = [primary_confidence EXCEPT ![s] = r[2]]
           /\ all_dept_scores' = [all_dept_scores EXCEPT ![s] = r[3]]
    /\ pc' = [pc EXCEPT ![s] = "classified"]
    /\ UNCHANGED <<processor, uploaded_file, file_content, extracted_text,
                   language, priority, summaries, table_data, shown, exception>>

\* priority = processor.classify_priority(extracted_text)
ClassifyPriority(s) ==
    /\ pc[s] = "classified"
    /\ priority' = [priority EXCEPT ![s] = classify_priority(extracted_text[s])]
    /\ pc' = [pc EXCEPT ![s] = "prioritized"]
    /\ UNCHANGED <<processor, uploaded_file, file_content, extracted_text,
                   language, primary_department, primary_confidence,
                   all_dept_scores, summaries, table_data, shown, exception>>

\* summaries = processor.generate_summary(extracted_text)
GenerateSummary(s) ==
    /\ pc[s] = "prioritized"
    /\ summaries' = [summaries EXCEPT ![s] = generate_summary(extracted_text[s])]
    /\ pc' = [pc EXCEPT ![s] = "summarized"]
    /\ UNCHANGED <<processor, uploaded_file, file_content, extracted_text,
                   language, primary_department, primary_confidence,
                   all_dept_scores, priority, table_data, shown, exception>>

\* st.success(...) and the subheader of the results
ShowSuccess(s) ==
    /\ pc[s] = "summarized"
    /\ shown' = [shown EXCEPT ![s] = @ \o <<"success", "subheader">>]
    /\ pc' = [pc EXCEPT ![s] = "success"]
    /\ UNCHANGED <<processor, uploaded_file, locals, exception>>

\* table_data = []; sorted_depts = sorted(...); the loop that appends a row
\* per sorted item
BuildTable(s) ==
    /\ pc[s] = "success"
    /\ LET sorted_depts == sorted_by_score_desc(all_dept_scores[s])
       IN  table_data' = [table_data EXCEPT ![s] =
                             build_table(sorted_depts, summaries[s])]
    /\ pc' = [pc EXCEPT ![s] = "ranked"]
    /\ UNCHANGED <<processor, uploaded_file, file_content, extracted_text,
                   language, primary_department, primary_confidence,
                   all_dept_scores, priority, summaries, shown, exception>>

\* st.dataframe(pd.DataFrame(table_data), ...) and the closing elements
Display(s) ==
    /\ pc[s] = "ranked"
    /\ shown' = [shown EXCEPT ![s] =
                    @ \o <<"dataframe", "subheader", "markdown", "info">>]
    /\ pc' = [pc EXCEPT ![s] = "done"]
    /\ UNCHANGED <<processor, uploaded_file, locals, exception>>

\* The user clears the uploader after a run: the next script run starts
\* with fresh locals and an empty page.
NewRun(s) ==
    /\ pc[s] \in {"done", "failed"}
    /\ pc' = [pc EXCEPT ![s] = "idle"]
    /\ uploaded_file' = [uploaded_file EXCEPT ![s] = None]
    /\ file_content' = [file_content EXCEPT ![s] = None]
    /\ extracted_text' = [extracted_text EXCEPT ![s] = None]
    /\ language' = [language EXCEPT ![s] = None]
    /\ primary_department' = [primary_department EXCEPT ![s] = None]
    /\ primary_confidence' = [primary_confidence EXCEPT ![s] = None]
    /\ all_dept_scores' = [all_dept_scores EXCEPT ![s] = None]
    /\ priority' = [priority EXCEPT ![s] = None]
    /\ summaries' = [summaries EXCEPT ![s] = None]
    /\ table_data' = [table_data EXCEPT ![s] = None]
    /\ shown' = [shown EXCEPT ![s] = <<>>]
    /\ exception' = [exception EXCEPT ![s] = None]
    /\ UNCHANGED processor

\* One session processing documents one after the other.
Next ==
    \E s \in {1} :
        \/ Upload(s, Documents)
        \/ ClickProcess(s)
        \/ ExtractText(s)
        \/ ClassifyDepartment(s)
        \/ ClassifyPriority(s)
        \/ GenerateSummary(s)
        \/ ShowSuccess(s)
        \/ BuildTable(s)
        \/ Display(s)
        \/ NewRun(s)

Spec == Init /\ [][Next]_vars

\* Several sessions, each processing documents one after the other, their
\* steps interleaved in any order.
NextConc ==
    \E s \in Sessions :
        \/ Upload(s, SampleDocuments)
        \/ ClickProcess(s)
        \/ ExtractText(s)
        \/ ClassifyDepartment(s)
        \/ ClassifyPriority(s)
        \/ GenerateSummary(s)
        \/ ShowSuccess(s)
        \/ BuildTable(s)
        \/ Display(s)
        \/ NewRun(s)

SpecConc == Init /\ [][NextConc]_vars

\* The table loop of main on any summaries mapping: session 1 stands where
\* main has its scores, and summaries is any mapping of PartialSummaries.
InitAssemble ==
    \E doc \in SampleDocuments :
        LET r == extract_text(doc.content, doc.name)
            c == classify_department(r.text)
            at1(v) == [s \in Sessions |-> IF s = 1 THEN v ELSE None]
        IN  /\ r.ok
            /\ processor = MockDocumentProcessor
            /\ pc = [s \in Sessions |-> IF s = 1 THEN "summarized" ELSE "idle"]
            /\ uploaded_file = at1(doc)
            /\ file_content = at1(doc.content)
            /\ extracted_text = at1(r.text)
            /\ language = at1(r.language)
            /\ primary_department = at1(c[1])
            /\ primary_confidence = at1(c[2])
            /\ all_dept_scores = at1(c[3])
            /\ priority = at1(classify_priority(r.text))
            /\ \E m \in PartialSummaries(generate_summary(r.text)) :
                   summaries = at1(m)
            /\ table_data = [s \in Sessions |-> None]
            /\ shown = [s \in Sessions |-> IF s = 1 THEN <<"info">> ELSE <<>>]
            /\ exception = [s \in Sessions |-> None]

NextAssemble ==
    \E s \in {1} :
        \/ ShowSuccess(s)
        \/ BuildTable(s)
        \/ Display(s)

SpecAssemble == InitAssemble /\ [][NextAssemble]_vars

\* ------------------------------------------------------------ properties
\* The catalog: the departments list of the shared processor.
catalog == processor.departments

\* label a stands before label b in the catalog
Precedes(a, b) ==
    \E i \in 1..Len(catalog), j \in 1..Len(catalog) :
        i < j /\ catalog[i] = a /\ catalog[j] = b

Range(f) == {f[x] : x \in DOMAIN f}

\* Where a run stands once it holds its scores, its priority, its table.
Scored == {"classified", "prioritized", "summarized", "success", "ranked", "done"}
Prioritized == {"prioritized", "summarized", "success", "ranked", "done"}
Ranked == {"ranked", "done"}

\* The score of the department of row i of session s's table.
row_score(s, i) ==
    dict_get(all_dept_scores[s], table_data[s][i]["Department Name"])

txt_name == <<97, 46, 116, 120, 116>>
TXT_name == <<97, 46, 84, 88, 84>>

\* C1: the ranked table is ordered by score descending, every row showing
\* the score of its department, and of two adjacent rows of equal score the
\* earlier one's department stands earlier in the catalog.
C1_SortCorrect ==
    \A s \in Sessions :
        pc[s] \in Ranked =>
            /\ \A i \in 1..Len(table_data[s]) :
                   table_data[s][i]["Relevance Score"]
                       = format_percent(row_score(s, i))
            /\ \A i \in 1..(Len(table_data[s]) - 1) :
                   /\ row_score(s, i) >= row_score(s, i + 1)
                   /\ row_score(s, i) = row_score(s, i + 1) =>
                          Precedes(table_data[s][i]["Department Name"],
                                   table_data[s][i + 1]["Department Name"])

\* Two departments tied at the top: 'Engineering Drawings' at rank 1 and
\* 'Board Meeting Minutes' at rank 2, both 0.85.
C1_Witness ==
    \E s \in Sessions :
        /\ pc[s] = "done"
        /\ table_data[s][1]["Department Name"] = <<"Engineering", "Drawings">>
        /\ table_data[s][2]["Department Name"] = <<"Board", "Meeting", "Minutes">>
        /\ table_data[s][1]["Relevance Score"] = "85.00%"
        /\ table_data[s][2]["Relevance Score"] = "85.00%"

\* C2: the table is a bijection between the ranks 1..N and the N = 11
\* catalog departments: N rows, 'Sr. No.' i in row i, every catalog
\* department in exactly one row.
C2_RankBijection ==
    \A s \in Sessions :
        pc[s] \in Ranked =>
            /\ Len(catalog) = 11
            /\ Len(table_data[s]) = Len(catalog)
            /\ \A i \in 1..Len(table_data[s]) : table_data[s][i]["Sr. No."] = i
            /\ \A c \in 1..Len(catalog) :
                   Cardinality({i \in 1..Len(table_data[s]) :
                       table_data[s][i]["Department Name"] = catalog[c]}) = 1

\* A table whose last row holds the lowest score there is, 0.18.
C2_Witness ==
    \E s \in Sessions :
        /\ pc[s] = "done"
        /\ table_data[s][11]["Sr. No."] = 11
        /\ table_data[s][11]["Department Name"] = <<"Regulatory", "Directives">>
        /\ table_data[s][11]["Relevance Score"] = "18.00%"

\* C3: the primary department and confidence of classify_department are the
\* department and score of the row at rank 1, and no department of the same
\* score stands before the primary department in the catalog.
C3_PrimaryIsRankOne ==
    \A s \in Sessions :
        pc[s] \in Ranked =>
            /\ table_data[s][1]["Department Name"] = primary_department[s]
            /\ table_data[s][1]["Relevance Score"]
                   = format_percent(primary_confidence[s])
            /\ primary_confidence[s]
                   = dict_get(all_dept_scores[s], primary_department[s])
            /\ \A i \in 1..Len(all_dept_scores[s]) :
                   /\ all_dept_scores[s][i].v <= primary_confidence[s]
                   /\ all_dept_scores[s][i].v = primary_confidence[s] =>
                          ~Precedes(all_dept_scores[s][i].k,
                                    primary_department[s])

\* Two departments tied at the top score.
C3_Witness ==
    \E s \in Sessions :
        /\ pc[s] = "ranked"
        /\ primary_department[s] = <<"Engineering", "Drawings">>
        /\ primary_confidence[s] = 85
        /\ dict_get(all_dept_scores[s], <<"Board", "Meeting", "Minutes">>) = 85

LevelRank == [High |-> 3, Medium |-> 2, Low |-> 1]

\* C5: classify_priority gives High with confidence >= 0.8 to a text that
\* holds 'urgent' in any case, with or without 'important'; Medium to one
\* that holds 'important' and no 'urgent'; Low to one that holds neither;
\* and a higher level always comes with a strictly higher confidence.
C5_PriorityPrecedence ==
    \A s \in Sessions :
        pc[s] = "prioritized" =>
            LET text_lower == lower(extracted_text[s])
                urgent == Contains(text_lower, kw_urgent)
                important == Contains(text_lower, kw_important)
                p == priority[s]
            IN  /\ urgent => (p[1] = "High" /\ p[2] >= 80)
                /\ (important /\ ~urgent) => p[1] = "Medium"
                /\ (~important /\ ~urgent) => p[1] = "Low"
                /\ \A ref \in {<<>>, kw_important, kw_urgent} :
                       LET q == classify_priority(ref)
                       IN  /\ LevelRank[p[1]] > LevelRank[q[1]] => p[2] > q[2]
                           /\ LevelRank[p[1]] < LevelRank[q[1]] => p[2] < q[2]
                           /\ LevelRank[p[1]] = LevelRank[q[1]] => p[2] = q[2]

\* A text with both words in it, classified High.
C5_Witness ==
    \E s \in Sessions :
        /\ pc[s] = "prioritized"
        /\ Contains(extracted_text[s], kw_urgent)
        /\ Contains(extracted_text[s], kw_important)
        /\ priority[s] = <<"High", 90>>

\* C6: a '.txt' upload whose bytes are not UTF-8 (they hold 0xFF) ends its
\* run, once past the extraction step, in the failed state with the
\* exception of extract_text; a failed run holds no scores, no priority and
\* no table, and has shown neither the success message nor the table.
C6_ExtractionFailure ==
    \A s \in Sessions :
        /\ ( /\ pc[s] \notin {"idle", "uploaded", "read"}
             /\ endswith(uploaded_file[s].name, suffix_txt)
             /\ Contains(uploaded_file[s].content, <<255>>) )
           => pc[s] = "failed"
        /\ pc[s] = "failed" =>
               /\ exception[s] = [type |-> "UnicodeDecodeError",
                                  raised_in |-> "extract_text"]
               /\ extracted_text[s] = None
               /\ all_dept_scores[s] = None
               /\ primary_department[s] = None
               /\ priority[s] = None
               /\ table_data[s] = None
               /\ "success" \notin Range(shown[s])
               /\ "dataframe" \notin Range(shown[s])
               /\ "exception" \in Range(shown[s])

\* A run that failed in extraction.
C6_Witness ==
    \E s \in Sessions :
        /\ pc[s] = "failed"
        /\ uploaded_file[s].name = txt_name
        /\ file_content[s] = kw_urgent \o <<32, 255>>

\* C7 (SpecAssemble): whatever summaries mapping the table loop is handed,
\* the table has one row per catalog department, in the order of the sorted
\* scores and with their ranks and scores; a row whose department has an
\* entry with a 'detailed' key carries that text, every other row carries
\* 'No summary available'.
C7_MissingSummaryFallback ==
    \A s \in Sessions :
        pc[s] \in Ranked =>
            LET sorted_depts == sorted_by_score_desc(all_dept_scores[s])
            IN  /\ Len(table_data[s]) = Len(catalog)
                /\ \A i \in 1..Len(sorted_depts) :
                       LET row == table_data[s][i]
                           dept == sorted_depts[i].k
                       IN  /\ row["Sr. No."] = i
                           /\ row["Department Name"] = dept
                           /\ row["Relevance Score"]
                                  = format_percent(sorted_depts[i].v)
                           /\ row["Summary"] =
                                  IF /\ dept \in DOMAIN summaries[s]
                                     /\ "detailed" \in DOMAIN summaries[s][dept]
                                  THEN summaries[s][dept]["detailed"]
                                  ELSE "No summary available"

\* A table built from a mapping with no entry for the department at rank 1
\* and an entry without 'detailed' for the one at rank 2, rank 3 having its
\* summary.
C7_Witness ==
    \E s \in Sessions :
        /\ pc[s] = "done"
        /\ table_data[s][1]["Department Name"] \notin DOMAIN summaries[s]
        /\ table_data[s][1]["Summary"] = "No summary available"
        /\ table_data[s][2]["Department Name"] \in DOMAIN summaries[s]
        /\ table_data[s][2]["Summary"] = "No summary available"
        /\ table_data[s][3]["Summary"] # "No summary available"

\* C8: the score vector of classify_department has exactly the catalog's
\* labels as its keys, one item per catalog entry, and every score lies in
\* [0.0, 1.0].
C8_ScoreVectorWellFormed ==
    \A s \in Sessions :
        pc[s] \in Scored =>
            /\ dict_keys(all_dept_scores[s]) = Range(catalog)
            /\ Len(all_dept_scores[s]) = Len(catalog)
            /\ Cardinality(Range(catalog)) = Len(catalog)
            /\ \A i \in 1..Len(all_dept_scores[s]) :
                   /\ all_dept_scores[s][i].v >= 0
                   /\ all_dept_scores[s][i].v <= 100

\* A vector that holds the highest and the lowest score there is.
C8_Witness ==
    \E s \in Sessions :
        /\ pc[s] = "classified"
        /\ dict_get(all_dept_scores[s], <<"Safety", "Circulars">>) = 90
        /\ dict_get(all_dept_scores[s], <<"HR", "Policies">>) = 70
        /\ dict_get(all_dept_scores[s], <<"Regulatory", "Directives">>) = 18

\* C9 (SpecConc): no step of any session changes the shared processor, and
\* two sessions whose runs extracted the same text hold the same scores and
\* primary department, the same priority and the same table, whatever the
\* sessions processed before and however their steps interleaved.
C9_SharedProcessorDeterminism ==
    /\ processor = MockDocumentProcessor
    /\ \A s, t \in Sessions :
           ( /\ pc[s] \in Scored
             /\ pc[t] \in Scored
             /\ extracted_text[s] = extracted_text[t] ) =>
               /\ all_dept_scores[s] = all_dept_scores[t]
               /\ primary_department[s] = primary_department[t]
               /\ primary_confidence[s] = primary_confidence[t]
               /\ (pc[s] \in Prioritized /\ pc[t] \in Prioritized) =>
                      priority[s] = priority[t]
               /\ (pc[s] \in Ranked /\ pc[t] \in Ranked) =>
                      table_data[s] = table_data[t]

\* Two sessions that have finished runs on the same text.
C9_Witness ==
    \E s, t \in Sessions :
        /\ s # t
        /\ pc[s] = "done"
        /\ pc[t] = "done"
        /\ extracted_text[s] = extracted_text[t]
        /\ table_data[s] = table_data[t]
        /\ table_data[s][1]["Department Name"] = <<"Engineering", "Drawings">>

\* The score a department has when the text is the sample sentence around
\* name: the sentence itself holds 'engineering', 'legal', 'finance', 'HR'
\* and 'safety', so only the name decides the other six.
sample_score(name, kw, hit, miss) ==
    IF Contains(lower(name), kw) THEN hit ELSE miss

\* C10: a file whose name does not end with '.txt' has 'Safety Circulars'
\* at 0.90 as its primary department, alone at rank 1 and strictly above
\* every other row, and its scores are those of the sample sentence around
\* its name, whatever its bytes.
C10_NonTxtIsSafety ==
    \A s \in Sessions :
        (pc[s] \in Scored /\ ~endswith(uploaded_file[s].name, suffix_txt)) =>
            LET name == uploaded_file[s].name
                score(label) == dict_get(all_dept_scores[s], label)
            IN  /\ primary_department[s] = <<"Safety", "Circulars">>
                /\ primary_confidence[s] = 90
                /\ \A i \in 1..Len(all_dept_scores[s]) :
                       all_dept_scores[s][i].k # <<"Safety", "Circulars">> =>
                           all_dept_scores[s][i].v < 90
                /\ score(<<"Engineering", "Drawings">>) = 85
                /\ score(<<"Legal", "Opinions">>) = 80
                /\ score(<<"Finance">>) = 75
                /\ score(<<"HR", "Policies">>) = 70
                /\ score(<<"Safety", "Circulars">>) = 90
                /\ score(<<"Board", "Meeting", "Minutes">>)
                       = sample_score(name, kw_board, 85, 32)
                /\ score(<<"Maintenance", "Job", "Cards">>)
                       = sample_score(name, kw_maintenance, 65, 22)
                /\ score(<<"Incident", "Reports">>)
                       = sample_score(name, kw_incident, 75, 26)
                /\ score(<<"Vendor", "Invoices">>)
                       = sample_score(name, kw_vendor, 70, 24)
                /\ score(<<"Purchase", "Order", "Correspondence">>)
                       = sample_score(name, kw_purchase, 68, 20)
                /\ score(<<"Regulatory", "Directives">>)
                       = sample_score(name, kw_regulatory, 72, 18)
                /\ pc[s] \in Ranked =>
                       /\ table_data[s][1]["Department Name"]
                              = <<"Safety", "Circulars">>
                       /\ table_data[s][1]["Relevance Score"] = "90.00%"
                       /\ \A i \in 2..Len(table_data[s]) : row_score(s, i) < 90

\* 'a.TXT' holding the bytes of 'board', processed to the end.
C10_Witness ==
    \E s \in Sessions :
        /\ pc[s] = "done"
        /\ uploaded_file[s].name = TXT_name
        /\ file_content[s] = kw_board
        /\ table_data[s][1]["Department Name"] = <<"Safety", "Circulars">>
        /\ table_data[s][1]["Sr. No."] = 1

=============================================================================
